---- MODULE Spec2Model ----
(***************************************************************************)
(* LiveSharePlus: the session synchronization server.                      *)
(*                                                                         *)
(* The repository holds several stand-alone variants of the same server.   *)
(* Three of them are modelled here; the variable "variant" says which one  *)
(* is running:                                                             *)
(*                                                                         *)
(*   "db"   src/unnamed/part_000 lines 1-345: SQLite file database with    *)
(*          the tables sessions, files (UNIQUE(session_id, file_path))     *)
(*          and session_users, REST routes and the socket.io relay.        *)
(*   "mem"  src/server.js lines 268-475: SQLite in-memory database with    *)
(*          the tables sessions and files (no UNIQUE constraint), REST     *)
(*          routes and a relay without presence.  Its definitions end in   *)
(*          Mem.                                                           *)
(*   "fs"   src/server.js lines 1-266: sessions and their files are kept   *)
(*          in directories under ./sessions.  Its REST routes are          *)
(*          modelled; their definitions end in Fs.                         *)
(*                                                                         *)
(* Spec is the whole server.  SpecStore, SpecRelay and SpecPresence are    *)
(* Spec with the environment restricted to the REST routes and edits       *)
(* (SpecStore), to the socket.io events (SpecRelay for edits, SpecEdit for *)
(* edits whose write fails, SpecCursor for cursors), and to joins and      *)
(* disconnects with sessions created and deleted and the process           *)
(* restarted (SpecPresence).                                               *)
(* SpecPayload has the events with and without a payload, SpecActivity     *)
(* the operations that touch a session while the clock advances, and       *)
(* SpecRecord the fs routes with puts that name session.json.              *)
(*                                                                         *)
(* Database statements are issued through node-sqlite3 in its default      *)
(* (parallel) mode: db.serialize is only used around the CREATE TABLE      *)
(* statements, so statements queued by the handlers execute one at a time  *)
(* inside SQLite but in no guaranteed order.  A queued statement is an     *)
(* element of the set "pending"; executing it together with its callback   *)
(* is one step.  A handler whose only effect is to queue one statement is  *)
(* modelled as the step that executes that statement.                      *)
(*                                                                         *)
(* No variant executes PRAGMA foreign_keys = ON, so SQLite does not        *)
(* enforce the FOREIGN KEY clauses of the schema (ForeignKeysEnforced).    *)
(***************************************************************************)
EXTENDS Integers, Sequences, FiniteSets, TLC

(* ------------------------------ bounds --------------------------------- *)

\* statements queued and not yet executed
MaxPending == 2
\* rows of session_users ("db") and of files ("mem")
MaxRows == 2
\* highest value of the wall clock
MaxClock == 1

(* ------------------------------ inputs --------------------------------- *)

Ids == {"s1", "s2"}
\* "%61" is a path containing a percent escape of "a"
Paths == {"a", "%61"}
\* paths of the fs variant: a file, and the file that holds the session record
RecordPaths == {"a", "session.json"}
\* every path a put or an edit is given
FileKeys == Ids \X (Paths \cup RecordPaths)
Contents == {"c1", "c2"}
\* a field the request body or event payload does not carry (undefined)
Missing == "<missing>"
SessionNames == {Missing, "Demo"}
UserNames == {Missing, "ann"}
Conns == {"A", "B"}
Positions == {"pos"}

VARIABLES
  variant,        \* the server that is running: "db", "mem" or "fs"
  sessionsDir,    \* "fs" directory ./sessions: session directories and files
  sessions,       \* table sessions: set of rows (id is the PRIMARY KEY)
  files,          \* "db" table files: set of rows (UNIQUE(session_id, file_path))
  mem_files,      \* "mem" table files: sequence of rows in rowid order
  session_users,  \* table session_users: sequence of rows in rowid order
  rooms,          \* socket.io rooms each connection has joined
  sock,           \* per connection: "new", "open" or "closed"
  emitted,        \* events the last step emitted to each connection, in order
  pending,        \* statements queued on the database, not yet executed
  resp,           \* the HTTP response the last step produced, if any
  now,            \* CURRENT_TIMESTAMP
  hist            \* history (not program state): see HistInit

vars == <<variant, sessionsDir, sessions, files, mem_files, session_users, rooms, sock, emitted, pending, resp, now, hist>>

(* ------------------------------ helpers -------------------------------- *)

\* part_000:25-31: the database is opened and no PRAGMA foreign_keys is run
ForeignKeysEnforced == FALSE

NoResp == [op |-> "none", sessionId |-> "", filePath |-> "", status |-> 0,
           content |-> "", files |-> <<>>]

Resp(op, s, p, status, content, list) ==
  [op |-> op, sessionId |-> s, filePath |-> p, status |-> status,
   content |-> content, files |-> list]

\* a queued statement: kind, session id, file path, value (content, user
\* name or cursor position) and socket id of the statement's parameters
Stmt(k, s, p, v, u) == [k |-> k, s |-> s, p |-> p, v |-> v, u |-> u]

\* the queue can take the statements in new; a statement that is already
\* queued is not queued a second time
CanQueue(pend, new) ==
  /\ Cardinality(pend \cup new) <= MaxPending
  /\ \A st \in new : st.k # "touch" => st \notin pend

SessionIds == {r.id : r \in sessions}

\* SELECT ... FROM files WHERE session_id = s AND file_path = p
FileRows(s, p) == {r \in files : r.session_id = s /\ r.file_path = p}

\* db.get on a sequence of rows in rowid order: the first row, <<>> when
\* there is none
FirstRow(rows) == IF rows = <<>> THEN <<>> ELSE <<rows[1]>>

\* decodeURIComponent applied to a route parameter that express has
\* already decoded
decodeURIComponent(p) == IF p = "%61" THEN "a" ELSE p

\* BINARY collation of file_path: "%" (0x25) sorts before "a" (0x61)
PathRank(p) == IF p = "%61" THEN 1 ELSE 2

RECURSIVE OrderByFilePath(_)
\* ORDER BY file_path over a set of rows with distinct paths
OrderByFilePath(rows) ==
  IF rows = {} THEN <<>>
  ELSE LET first == CHOOSE r \in rows :
                      \A q \in rows : PathRank(r.file_path) <= PathRank(q.file_path)
       IN <<first>> \o OrderByFilePath(rows \ {first})

\* SELECT ... FROM files WHERE session_id = s
FilesOf(s) == {r \in files : r.session_id = s}

UsersOf(s) == SelectSeq(session_users, LAMBDA r : r.session_id = s)

\* mutant of UserRows: the lookup ignores the user id
UserRowsOfAnyone(u) == session_users

UserRows(u) == SelectSeq(session_users, LAMBDA r : r.user_id = u)

\* function updateSessionActivity(sessionId): queues the UPDATE
updateSessionActivity(s) == Stmt("touch", s, "", "", "")

\* ON DELETE CASCADE of files and session_users: acts only when SQLite
\* enforces foreign keys
CascadeFiles(s) ==
  IF ForeignKeysEnforced
  THEN {r \in files : r.session_id # s}
  ELSE files

CascadeUsers(s) ==
  IF ForeignKeysEnforced
  THEN SelectSeq(session_users, LAMBDA r : r.session_id # s)
  ELSE session_users

\* FOREIGN KEY(session_id) REFERENCES sessions(id) on INSERT
ForeignKeyOk(s) == ForeignKeysEnforced => s \in SessionIds

\* the connections socket.to(room) reaches: members of the room but sender
Recipients(sender, room) == {b \in Conns : room \in rooms[b] /\ b # sender}

\* a step that emits nothing
Silent == [b \in Conns |-> <<>>]

\* mutant of SocketToEmit: io.to(room).emit(ev), which also reaches the sender
SocketToEmitAll(sender, room, ev) ==
  [b \in Conns |-> IF room \in rooms[b] \/ b = sender THEN <<ev>> ELSE <<>>]

\* socket.to(room).emit(ev)
SocketToEmit(sender, room, ev) ==
  [b \in Conns |-> IF b \in Recipients(sender, room) THEN <<ev>> ELSE <<>>]

\* socket.emit(ev): dropped when the socket is no longer connected
SocketEmit(c, ev) ==
  [b \in Conns |-> IF b = c /\ sock[c] = "open" THEN <<ev>> ELSE <<>>]

(* ------------------------------ history -------------------------------- *)

\* lastWrite[<<s, p>>]: content of the write to (s, p) that completed last
\* puts[<<s, p>>]: contents of the last two puts to (s, p) that succeeded
\*       with no edit of (s, p) and no delete of s since
\* written[s]: paths written to s since s was last created
\* fresh[s]: s was created while the store held no file of s and has not
\*       been deleted since
\* gone: keys written before a successful delete of their session and not
\*       written since
\* owed: user-left notifications due after a disconnect
\* joined: the join-session events handled: <<connection, session, name>>
\* deleted: the sessions deleted and not created again since
\* failed: the code-change writes that failed: <<session, path, content>>
\* named[s]: the name given to the create that made s, "" when s was never
\*       created or has been deleted since
HistInit ==
  [lastWrite |-> [k \in FileKeys |-> ""],
   puts      |-> [k \in FileKeys |-> <<>>],
   written   |-> [s \in Ids |-> {}],
   fresh     |-> [s \in Ids |-> FALSE],
   gone      |-> {},
   owed      |-> {},
   joined    |-> {},
   named     |-> [s \in Ids |-> ""],
   deleted   |-> {},
   failed    |-> {},
   active    |-> [s \in Ids |-> 0],
   lastSent  |-> [k \in FileKeys |-> ""]]

LastTwo(seq) == IF Len(seq) <= 2 THEN seq ELSE Tail(seq)

\* an edit (code-change) wrote v to (s, p)
HistWrite(s, p, v) ==
  [hist EXCEPT !.lastWrite[<<s, p>>] = v,
               !.puts[<<s, p>>] = <<>>,
               !.written[s] = @ \cup {p},
               !.gone = @ \ {<<s, p>>},
               !.active[s] = now]

\* a put wrote v to (s, p) and succeeded
HistPut(s, p, v) ==
  [hist EXCEPT !.lastWrite[<<s, p>>] = v,
               !.puts[<<s, p>>] = LastTwo(Append(@, v)),
               !.written[s] = @ \cup {p},
               !.gone = @ \ {<<s, p>>},
               !.active[s] = now]

\* c broadcast a code-update with content v for (s, p): the content the
\* members of s received last, none when the broadcast reached nobody
HistSent(c, s, p, v) ==
  [hist EXCEPT !.lastSent[<<s, p>>] =
                  IF \E b \in Conns : s \in rooms[b] /\ b # c THEN v ELSE ""]

\* a read of session s (file get, file list) succeeded at time now
HistActive(s) == [hist EXCEPT !.active[s] = now]

\* session s was created; empty says whether the store held no file of s
HistCreate(s, empty) ==
  [hist EXCEPT !.written[s] = {}, !.fresh[s] = empty, !.deleted = @ \ {s}]

\* the create that made s was given name n
HistNamed(h, s, n) == [h EXCEPT !.named[s] = n]

\* connection c sent join-session for s with name n
HistJoin(c, s, n) == [hist EXCEPT !.joined = @ \cup {<<c, s, n>>}]

\* session s was deleted
HistDelete(s) ==
  [hist EXCEPT !.gone = @ \cup {k \in FileKeys : k[1] = s /\ hist.lastWrite[k] # ""},
               !.puts = [k \in FileKeys |-> IF k[1] = s THEN <<>> ELSE @[k]],
               !.fresh[s] = FALSE,
               !.named[s] = "",
               !.deleted = @ \cup {s}]

(* ------------------------- initial state ------------------------------- *)

Init ==
  /\ variant \in {"db", "mem", "fs"}
  /\ sessionsDir = [dirs |-> {}, files |-> {}]
  /\ sessions = {}
  /\ files = {}
  /\ mem_files = <<>>
  /\ session_users = <<>>
  /\ rooms = [c \in Conns |-> {}]
  /\ sock = [c \in Conns |-> "new"]
  /\ emitted = Silent
  /\ pending = {}
  /\ resp = NoResp
  /\ now = 0
  /\ hist = HistInit

(* ------------- REST routes, src/unnamed/part_000 lines 77-231 ---------- *)

\* app.post('/api/sessions'): sessionId is a random token
PostSession(id, name) ==
  /\ variant = "db"
  /\ IF id \in SessionIds
     THEN \* PRIMARY KEY violation: err is set
          /\ resp' = Resp("postSession", id, "", 500, "", <<>>)
          /\ UNCHANGED <<sessions, hist>>
     ELSE /\ sessions' = sessions \cup
               {[id |-> id, name |-> name, created_at |-> now, last_activity |-> now]}
          /\ resp' = Resp("postSession", id, "", 200, name, <<>>)
          /\ hist' = HistNamed(HistCreate(id, FilesOf(id) = {}), id, name)
  /\ emitted' = Silent
  /\ UNCHANGED <<variant, sessionsDir, mem_files, files, session_users, rooms, sock, pending, now>>

\* app.get('/api/sessions/:sessionId')
GetSession(id) ==
  /\ variant = "db"
  /\ resp' = IF id \in SessionIds
             THEN Resp("getSession", id, "", 200,
                       (CHOOSE r \in sessions : r.id = id).name, <<>>)
             ELSE Resp("getSession", id, "", 404, "Session not found", <<>>)
  /\ emitted' = Silent
  /\ UNCHANGED <<variant, sessionsDir, mem_files, sessions, files, session_users, rooms, sock, pending, now, hist>>

\* app.post('/api/sessions/:sessionId/files'): SELECT id FROM sessions
PostFile(s, p, v) ==
  /\ variant = "db"
  /\ IF s \notin SessionIds
     THEN /\ resp' = Resp("postFile", s, p, 404, "Session not found", <<>>)
          /\ UNCHANGED pending
     ELSE /\ CanQueue(pending, {Stmt("put_get_file", s, p, v, "")})
          /\ pending' = pending \cup {Stmt("put_get_file", s, p, v, "")}
          /\ resp' = NoResp
  /\ emitted' = Silent
  /\ UNCHANGED <<variant, sessionsDir, mem_files, sessions, files, session_users, rooms, sock, now, hist>>

\* ... its callback's SELECT * FROM files, choosing UPDATE or INSERT
RunPutGetFile(st) ==
  /\ variant = "db"
  /\ st \in pending /\ st.k = "put_get_file"
  /\ LET fileRow == FileRows(st.s, st.p)
         next == IF fileRow # {} THEN [st EXCEPT !.k = "put_update"]
                                   ELSE [st EXCEPT !.k = "put_insert"]
     IN /\ next \notin pending
        /\ pending' = (pending \ {st}) \cup {next}
  /\ resp' = NoResp
  /\ emitted' = Silent
  /\ UNCHANGED <<variant, sessionsDir, mem_files, sessions, files, session_users, rooms, sock, now, hist>>

\* ... UPDATE files SET content, last_modified
RunPutUpdate(st) ==
  /\ variant = "db"
  /\ st \in pending /\ st.k = "put_update"
  /\ files' = {IF r.session_id = st.s /\ r.file_path = st.p
                THEN [r EXCEPT !.content = st.v, !.last_modified = now]
                ELSE r : r \in files}
  /\ pending' = (pending \ {st}) \cup {updateSessionActivity(st.s)}
  /\ resp' = Resp("postFile", st.s, st.p, 200, "File updated", <<>>)
  /\ hist' = HistPut(st.s, st.p, st.v)
  /\ emitted' = Silent
  /\ UNCHANGED <<variant, sessionsDir, mem_files, sessions, session_users, rooms, sock, now>>

\* ... INSERT INTO files
RunPutInsert(st) ==
  /\ variant = "db"
  /\ st \in pending /\ st.k = "put_insert"
  /\ IF FileRows(st.s, st.p) # {} \/ ~ForeignKeyOk(st.s)
     THEN \* UNIQUE(session_id, file_path) or FOREIGN KEY violation
          /\ resp' = Resp("postFile", st.s, st.p, 500, "", <<>>)
          /\ pending' = pending \ {st}
          /\ UNCHANGED <<files, hist>>
     ELSE /\ files' = files \cup {[session_id |-> st.s, file_path |-> st.p,
                                   content |-> st.v, last_modified |-> now]}
          /\ pending' = (pending \ {st}) \cup {updateSessionActivity(st.s)}
          /\ resp' = Resp("postFile", st.s, st.p, 200, "File saved", <<>>)
          /\ hist' = HistPut(st.s, st.p, st.v)
  /\ emitted' = Silent
  /\ UNCHANGED <<variant, sessionsDir, mem_files, sessions, session_users, rooms, sock, now>>

\* app.get('/api/sessions/:sessionId/files/:filePath')
GetFile(s, p) ==
  /\ variant = "db"
  /\ LET row == FileRows(s, decodeURIComponent(p))
     IN IF row = {}
        THEN /\ resp' = Resp("getFile", s, p, 404, "File not found", <<>>)
             /\ UNCHANGED <<pending, hist>>
        ELSE /\ CanQueue(pending, {updateSessionActivity(s)})
             /\ pending' = pending \cup {updateSessionActivity(s)}
             /\ resp' = Resp("getFile", s, p, 200, (CHOOSE r \in row : TRUE).content, <<>>)
             /\ hist' = HistActive(s)
  /\ emitted' = Silent
  /\ UNCHANGED <<variant, sessionsDir, mem_files, sessions, files, session_users, rooms, sock, now>>

\* a list that does not call updateSessionActivity
ListFilesUntouched(s) ==
  /\ variant = "db"
  /\ pending' = pending
  /\ resp' = Resp("listFiles", s, "", 200, "",
                  LET rows == OrderByFilePath(FilesOf(s))
                  IN [i \in 1..Len(rows) |-> rows[i].file_path])
  /\ hist' = HistActive(s)
  /\ emitted' = Silent
  /\ UNCHANGED <<variant, sessionsDir, mem_files, sessions, files, session_users, rooms, sock, now>>

\* app.get('/api/sessions/:sessionId/files')
ListFiles(s) ==
  /\ variant = "db"
  /\ CanQueue(pending, {updateSessionActivity(s)})
  /\ pending' = pending \cup {updateSessionActivity(s)}
  /\ resp' = Resp("listFiles", s, "", 200, "",
                  LET rows == OrderByFilePath(FilesOf(s))
                  IN [i \in 1..Len(rows) |-> rows[i].file_path])
  /\ hist' = HistActive(s)
  /\ emitted' = Silent
  /\ UNCHANGED <<variant, sessionsDir, mem_files, sessions, files, session_users, rooms, sock, now>>

\* app.delete('/api/sessions/:sessionId')
DeleteSession(s) ==
  /\ variant = "db"
  /\ IF s \notin SessionIds
     THEN \* this.changes === 0
          /\ resp' = Resp("deleteSession", s, "", 404, "Session not found", <<>>)
          /\ UNCHANGED <<sessions, files, session_users, hist>>
     ELSE /\ sessions' = {r \in sessions : r.id # s}
          /\ files' = CascadeFiles(s)
          /\ session_users' = CascadeUsers(s)
          /\ resp' = Resp("deleteSession", s, "", 200, "Session deleted", <<>>)
          /\ hist' = HistDelete(s)
  /\ emitted' = Silent
  /\ UNCHANGED <<variant, sessionsDir, mem_files, rooms, sock, pending, now>>

\* the UPDATE queued by updateSessionActivity
RunTouch(st) ==
  /\ variant = "db"
  /\ st \in pending /\ st.k = "touch"
  /\ sessions' = {IF r.id = st.s THEN [r EXCEPT !.last_activity = now] ELSE r
                  : r \in sessions}
  /\ pending' = pending \ {st}
  /\ resp' = NoResp
  /\ emitted' = Silent
  /\ UNCHANGED <<variant, sessionsDir, mem_files, files, session_users, rooms, sock, now, hist>>

(* ------------ socket.io relay, src/unnamed/part_000 lines 234-345 ------ *)

\* userName || 'Anonymous'
OrAnonymous(n) == IF n = Missing THEN "Anonymous" ELSE n

\* mutant of UserJoined: the event does not carry the given name
UserJoinedUnnamed(c, n) == [type |-> "user-joined", userId |-> c, userName |-> "Anonymous"]

UserJoined(c, n) == [type |-> "user-joined", userId |-> c, userName |-> OrAnonymous(n)]

UserLeft(c, n) == [type |-> "user-left", userId |-> c, userName |-> n]

CodeUpdate(c, p, v) == [type |-> "code-update", filePath |-> p, content |-> v, sender |-> c]

CursorUpdate(c, n, pos) ==
  [type |-> "cursor-update", userId |-> c, userName |-> n, position |-> pos]

\* the rows of SELECT user_id, user_name FROM session_users WHERE session_id = s
CurrentUsers(s) ==
  [type |-> "current-users",
   users |-> [i \in 1..Len(UsersOf(s)) |->
                [user_id |-> UsersOf(s)[i].user_id, user_name |-> UsersOf(s)[i].user_name]]]

\* io.on('connection')
Connect(c) ==
  /\ sock[c] = "new"
  /\ sock' = [sock EXCEPT ![c] = "open"]
  /\ resp' = NoResp
  /\ emitted' = Silent
  /\ UNCHANGED <<variant, sessionsDir, mem_files, sessions, files, session_users, rooms, pending, now, hist>>

\* rows of session_users present or about to be inserted
UserRowsQueued == Len(session_users) + Cardinality({st \in pending : st.k = "ins_user"})

\* socket.on('join-session')
JoinSession(c, s, n) ==
  /\ variant = "db"
  /\ sock[c] = "open"
  /\ UserRowsQueued < MaxRows
  /\ LET new == {Stmt("ins_user", s, "", OrAnonymous(n), c), Stmt("sel_users", s, "", "", c)}
     IN /\ CanQueue(pending, new)
        /\ pending' = pending \cup new
  /\ rooms' = [rooms EXCEPT ![c] = @ \cup {s}]
  /\ emitted' = SocketToEmit(c, s, UserJoined(c, n))
  /\ hist' = HistJoin(c, s, OrAnonymous(n))
  /\ resp' = NoResp
  /\ UNCHANGED <<variant, sessionsDir, mem_files, sessions, files, session_users, sock, now>>

\* ... INSERT INTO session_users
RunInsertUser(st) ==
  /\ variant = "db"
  /\ st \in pending /\ st.k = "ins_user"
  /\ session_users' =
       IF ForeignKeyOk(st.s)
       THEN Append(session_users, [session_id |-> st.s, user_id |-> st.u, user_name |-> st.v])
       ELSE session_users
  /\ pending' = pending \ {st}
  /\ resp' = NoResp
  /\ emitted' = Silent
  /\ UNCHANGED <<variant, sessionsDir, mem_files, sessions, files, rooms, sock, now, hist>>

\* ... SELECT user_id, user_name FROM session_users, then socket.emit
RunSelectUsers(st) ==
  /\ variant = "db"
  /\ st \in pending /\ st.k = "sel_users"
  /\ emitted' = SocketEmit(st.u, CurrentUsers(st.s))
  /\ pending' = pending \ {st}
  /\ resp' = NoResp
  /\ UNCHANGED <<variant, sessionsDir, mem_files, sessions, files, session_users, rooms, sock, now, hist>>

\* socket.on('code-change')
CodeChange(c, s, p, v) ==
  /\ variant = "db"
  /\ sock[c] = "open"
  /\ CanQueue(pending, {Stmt("replace_file", s, p, v, "")})
  /\ pending' = pending \cup {Stmt("replace_file", s, p, v, "")}
  /\ emitted' = SocketToEmit(c, s, CodeUpdate(c, p, v))
  /\ resp' = NoResp
  /\ hist' = HistSent(c, s, p, v)
  /\ UNCHANGED <<variant, sessionsDir, mem_files, sessions, files, session_users, rooms, sock, now>>

\* INSERT OR REPLACE INTO files with UNIQUE(session_id, file_path): the
\* conflicting row is deleted and a new row is inserted
InsertOrReplace(s, p, v) ==
  (files \ FileRows(s, p)) \cup
    {[session_id |-> s, file_path |-> p, content |-> v, last_modified |-> now]}

\* ... INSERT OR REPLACE INTO files, then updateSessionActivity
RunReplaceFile(st) ==
  /\ variant = "db"
  /\ st \in pending /\ st.k = "replace_file"
  /\ IF ForeignKeyOk(st.s)
     THEN /\ files' = InsertOrReplace(st.s, st.p, st.v)
          /\ pending' = (pending \ {st}) \cup {updateSessionActivity(st.s)}
          /\ hist' = HistWrite(st.s, st.p, st.v)
     ELSE /\ pending' = pending \ {st}
          /\ UNCHANGED <<files, hist>>
  /\ resp' = NoResp
  /\ emitted' = Silent
  /\ UNCHANGED <<variant, sessionsDir, mem_files, sessions, session_users, rooms, sock, now>>

\* mutant of FailReplaceFile: the error is sent to the session's room
FailReplaceFileReported(st) ==
  /\ variant = "db"
  /\ st \in pending /\ st.k = "replace_file"
  /\ pending' = pending \ {st}
  /\ hist' = [hist EXCEPT !.failed = @ \cup {<<st.s, st.p, st.v>>}]
  /\ resp' = NoResp
  /\ emitted' = [b \in Conns |-> IF st.s \in rooms[b] THEN <<[type |-> "error"]>> ELSE <<>>]
  /\ UNCHANGED <<variant, sessionsDir, mem_files, sessions, files, session_users, rooms, sock, now>>

\* ... INSERT OR REPLACE INTO files fails (err is set): console.error only
FailReplaceFile(st) ==
  /\ variant = "db"
  /\ st \in pending /\ st.k = "replace_file"
  /\ pending' = pending \ {st}
  /\ hist' = [hist EXCEPT !.failed = @ \cup {<<st.s, st.p, st.v>>}]
  /\ resp' = NoResp
  /\ emitted' = Silent
  /\ UNCHANGED <<variant, sessionsDir, mem_files, sessions, files, session_users, rooms, sock, now>>

\* socket.on('cursor-change')
CursorChange(c, s, pos) ==
  /\ variant = "db"
  /\ sock[c] = "open"
  /\ CanQueue(pending, {Stmt("sel_cursor", s, "", pos, c)})
  /\ pending' = pending \cup {Stmt("sel_cursor", s, "", pos, c)}
  /\ resp' = NoResp
  /\ emitted' = Silent
  /\ UNCHANGED <<variant, sessionsDir, mem_files, sessions, files, session_users, rooms, sock, now, hist>>

\* ... SELECT user_name FROM session_users WHERE user_id, then broadcast
RunSelectCursor(st) ==
  /\ variant = "db"
  /\ st \in pending /\ st.k = "sel_cursor"
  /\ LET row == FirstRow(UserRows(st.u))
     IN emitted' = IF row = <<>> THEN Silent
                   ELSE SocketToEmit(st.u, st.s, CursorUpdate(st.u, row[1].user_name, st.v))
  /\ pending' = pending \ {st}
  /\ resp' = NoResp
  /\ UNCHANGED <<variant, sessionsDir, mem_files, sessions, files, session_users, rooms, sock, now, hist>>

\* the user-left notifications a disconnect of c owes: one to every other
\* member of every session c has a presence row for
Owed(c) ==
  {[to |-> b, userId |-> c, userName |-> session_users[i].user_name] :
     <<b, i>> \in {x \in Conns \X (1..Len(session_users)) :
                     /\ session_users[x[2]].user_id = c
                     /\ x[1] # c
                     /\ session_users[x[2]].session_id \in rooms[x[1]]
                     /\ session_users[x[2]].session_id \in rooms[c]}}

\* socket.on('disconnect'): socket.io has emptied the socket's rooms
Disconnect(c) ==
  /\ variant = "db"
  /\ sock[c] = "open"
  /\ LET new == {Stmt("sel_leave", "", "", "", c), Stmt("del_user", "", "", "", c)}
     IN /\ CanQueue(pending, new)
        /\ pending' = pending \cup new
  /\ sock' = [sock EXCEPT ![c] = "closed"]
  /\ rooms' = [rooms EXCEPT ![c] = {}]
  /\ hist' = [hist EXCEPT !.owed = {o \in @ : o.to # c} \cup Owed(c)]
  /\ resp' = NoResp
  /\ emitted' = Silent
  /\ UNCHANGED <<variant, sessionsDir, mem_files, sessions, files, session_users, now>>

\* ... SELECT session_id, user_name FROM session_users WHERE user_id
RunSelectLeave(st) ==
  /\ variant = "db"
  /\ st \in pending /\ st.k = "sel_leave"
  /\ LET row == FirstRow(UserRows(st.u))
     IN emitted' = IF row = <<>> THEN Silent
                   ELSE SocketToEmit(st.u, row[1].session_id, UserLeft(st.u, row[1].user_name))
  /\ hist' = [hist EXCEPT !.owed =
                 {o \in @ : emitted'[o.to] # <<UserLeft(o.userId, o.userName)>>}]
  /\ pending' = pending \ {st}
  /\ resp' = NoResp
  /\ UNCHANGED <<variant, sessionsDir, mem_files, sessions, files, session_users, rooms, sock, now>>

\* ... DELETE FROM session_users WHERE user_id
RunDeleteUser(st) ==
  /\ variant = "db"
  /\ st \in pending /\ st.k = "del_user"
  /\ session_users' = SelectSeq(session_users, LAMBDA r : r.user_id # st.u)
  /\ pending' = pending \ {st}
  /\ resp' = NoResp
  /\ emitted' = Silent
  /\ UNCHANGED <<variant, sessionsDir, mem_files, sessions, files, rooms, sock, now, hist>>

\* the process exits and is started again: every connection is lost without
\* its disconnect handler running, queued statements are dropped, and the
\* database file ./sessions.db is opened again with its tables as they were
\* (CREATE TABLE IF NOT EXISTS)
Restart ==
  /\ variant = "db"
  /\ sock' = [c \in Conns |-> IF sock[c] = "open" THEN "closed" ELSE sock[c]]
  /\ rooms' = [c \in Conns |-> {}]
  /\ pending' = {}
  /\ emitted' = Silent
  /\ resp' = NoResp
  /\ UNCHANGED <<variant, sessionsDir, mem_files, sessions, files, session_users, now, hist>>

\* a socket.io handler throws: socket.io calls the handler from
\* process.nextTick without a try/catch and the program installs no
\* 'uncaughtException' handler, so Node prints the error and the process
\* exits: every connection is lost and queued statements are dropped
UncaughtException ==
  /\ sock' = [c \in Conns |-> IF sock[c] = "open" THEN "closed" ELSE sock[c]]
  /\ rooms' = [c \in Conns |-> {}]
  /\ pending' = {}
  /\ emitted' = Silent
  /\ resp' = NoResp
  /\ UNCHANGED <<variant, sessionsDir, mem_files, sessions, files, session_users, now, hist>>

\* socket.on('join-session') with no payload: const { sessionId, userName }
\* = data throws TypeError for data undefined
JoinSessionNoData(c) ==
  /\ variant = "db"
  /\ sock[c] = "open"
  /\ UncaughtException

\* socket.on('code-change') with no payload
CodeChangeNoData(c) ==
  /\ variant = "db"
  /\ sock[c] = "open"
  /\ UncaughtException

\* socket.on('cursor-change') with no payload
CursorChangeNoData(c) ==
  /\ variant = "db"
  /\ sock[c] = "open"
  /\ UncaughtException

\* the wall clock advances
Tick ==
  /\ now < MaxClock
  /\ now' = now + 1
  /\ resp' = NoResp
  /\ emitted' = Silent
  /\ UNCHANGED <<variant, sessionsDir, mem_files, sessions, files, session_users, rooms, sock, pending, hist>>

(* ------- the in-memory variant, src/server.js lines 268-475 ------------ *)

\* SELECT ... FROM files WHERE session_id = s AND file_path = p, in rowid
\* order
FileRowsMem(s, p) ==
  SelectSeq(mem_files, LAMBDA r : r.session_id = s /\ r.file_path = p)

FilesOfMem(s) == SelectSeq(mem_files, LAMBDA r : r.session_id = s)

\* rows of files present or about to be inserted
FileRowsQueued ==
  Len(mem_files) + Cardinality({st \in pending : st.k = "replace_file_mem"})

\* INSERT OR REPLACE INTO files: the table has no UNIQUE constraint and the
\* statement gives no id, so no row conflicts and a row is added
InsertOrReplaceMem(s, p, v) ==
  Append(mem_files, [session_id |-> s, file_path |-> p, content |-> v,
                     last_modified |-> now])

\* app.post('/api/sessions')
PostSessionMem(id, name) ==
  /\ variant = "mem"
  /\ IF name = Missing
     THEN /\ resp' = Resp("postSession", id, "", 400, "Session name is required", <<>>)
          /\ UNCHANGED <<sessions, hist>>
     ELSE IF id \in SessionIds
     THEN /\ resp' = Resp("postSession", id, "", 500, "", <<>>)
          /\ UNCHANGED <<sessions, hist>>
     ELSE /\ sessions' = sessions \cup {[id |-> id, name |-> name, created_at |-> now]}
          /\ resp' = Resp("postSession", id, "", 200, name, <<>>)
          /\ hist' = HistNamed(HistCreate(id, FilesOfMem(id) = <<>>), id, name)
  /\ emitted' = Silent
  /\ UNCHANGED <<variant, sessionsDir, files, mem_files, session_users, rooms, sock, pending, now>>

\* app.get('/api/sessions/:sessionId')
GetSessionMem(id) ==
  /\ variant = "mem"
  /\ resp' = IF id \in SessionIds
             THEN Resp("getSession", id, "", 200,
                       (CHOOSE r \in sessions : r.id = id).name, <<>>)
             ELSE Resp("getSession", id, "", 404, "Session not found", <<>>)
  /\ emitted' = Silent
  /\ UNCHANGED <<variant, sessionsDir, sessions, files, mem_files, session_users, rooms, sock,
                 pending, now, hist>>

\* app.post('/api/sessions/:sessionId/files')
PostFileMem(s, p, v) ==
  /\ variant = "mem"
  /\ IF p = Missing \/ v = Missing
     THEN /\ resp' = Resp("postFile", s, p, 400, "filePath and content are required", <<>>)
          /\ UNCHANGED <<mem_files, hist>>
     ELSE /\ FileRowsQueued < MaxRows
          /\ mem_files' = InsertOrReplaceMem(s, p, v)
          /\ resp' = Resp("postFile", s, p, 200, "File saved successfully", <<>>)
          /\ hist' = HistPut(s, p, v)
  /\ emitted' = Silent
  /\ UNCHANGED <<variant, sessionsDir, sessions, files, session_users, rooms, sock, pending, now>>

\* app.get('/api/sessions/:sessionId/files/:filePath')
GetFileMem(s, p) ==
  /\ variant = "mem"
  /\ LET row == FirstRow(FileRowsMem(s, decodeURIComponent(p)))
     IN resp' = IF row = <<>>
                THEN Resp("getFile", s, p, 404, "File not found", <<>>)
                ELSE Resp("getFile", s, p, 200, row[1].content, <<>>)
  /\ emitted' = Silent
  /\ UNCHANGED <<variant, sessionsDir, sessions, files, mem_files, session_users, rooms, sock,
                 pending, now, hist>>

\* app.get('/api/sessions/:sessionId/files')
ListFilesMem(s) ==
  /\ variant = "mem"
  /\ resp' = Resp("listFiles", s, "", 200, "",
                  [i \in 1..Len(FilesOfMem(s)) |-> FilesOfMem(s)[i].file_path])
  /\ emitted' = Silent
  /\ UNCHANGED <<variant, sessionsDir, sessions, files, mem_files, session_users, rooms, sock,
                 pending, now, hist>>

\* socket.on('join-session')
JoinSessionMem(c, s, n) ==
  /\ variant = "mem"
  /\ sock[c] = "open"
  /\ rooms' = [rooms EXCEPT ![c] = @ \cup {s}]
  /\ emitted' = SocketToEmit(c, s, UserJoined(c, n))
  /\ hist' = HistJoin(c, s, OrAnonymous(n))
  /\ resp' = NoResp
  /\ UNCHANGED <<variant, sessionsDir, sessions, files, mem_files, session_users, sock, pending,
                 now>>

\* socket.on('code-change')
CodeChangeMem(c, s, p, v) ==
  /\ variant = "mem"
  /\ sock[c] = "open"
  /\ FileRowsQueued < MaxRows
  /\ CanQueue(pending, {Stmt("replace_file_mem", s, p, v, "")})
  /\ pending' = pending \cup {Stmt("replace_file_mem", s, p, v, "")}
  /\ emitted' = SocketToEmit(c, s, CodeUpdate(c, p, v))
  /\ resp' = NoResp
  /\ hist' = HistSent(c, s, p, v)
  /\ UNCHANGED <<variant, sessionsDir, sessions, files, mem_files, session_users, rooms, sock,
                 now>>

\* ... INSERT OR REPLACE INTO files
RunReplaceFileMem(st) ==
  /\ variant = "mem"
  /\ st \in pending /\ st.k = "replace_file_mem"
  /\ mem_files' = InsertOrReplaceMem(st.s, st.p, st.v)
  /\ pending' = pending \ {st}
  /\ hist' = HistWrite(st.s, st.p, st.v)
  /\ emitted' = Silent
  /\ resp' = NoResp
  /\ UNCHANGED <<variant, sessionsDir, sessions, files, session_users, rooms, sock, now>>

\* socket.on('disconnect'): socket.io has emptied the socket's rooms
DisconnectMem(c) ==
  /\ variant = "mem"
  /\ sock[c] = "open"
  /\ sock' = [sock EXCEPT ![c] = "closed"]
  /\ rooms' = [rooms EXCEPT ![c] = {}]
  /\ emitted' = Silent
  /\ resp' = NoResp
  /\ UNCHANGED <<variant, sessionsDir, sessions, files, mem_files, session_users, pending, now, hist>>

(* ----------- the "fs" variant, src/server.js lines 1-266 --------------- *)

\* the content of the file main.js that a new session starts with
DefaultContent == "// Welcome to Live Share Session"

\* fs.access(sessionDir) succeeds
DirExists(s) == s \in sessionsDir.dirs

\* the files of directory ./sessions/<s>
DirFiles(s) == {f \in sessionsDir.files : f.session_id = s}

\* fs.mkdir(sessionDir, { recursive: true })
Mkdir(d, s) == [d EXCEPT !.dirs = @ \cup {s}]

\* fs.writeFile: creates the file or replaces its content
WriteFile(d, s, p, v) ==
  [d EXCEPT !.files = {f \in @ : ~(f.session_id = s /\ f.file_path = p)}
                        \cup {[session_id |-> s, file_path |-> p, content |-> v]}]

\* the names list files answers with: all but session.json and .gitkeep
CodeFiles(s) == {f.file_path : f \in DirFiles(s)} \ {"session.json", ".gitkeep"}

\* fs.readdir returns the names in an order the file system chooses
Orderings(S) ==
  {o \in [1..Cardinality(S) -> S] : \A x \in S : \E i \in DOMAIN o : o[i] = x}

\* app.post('/api/sessions'); id is the random sessionId
PostSessionFs(id, name) ==
  /\ variant = "fs"
  /\ IF name = Missing
     THEN /\ resp' = Resp("postSession", id, "", 400, "Session name is required", <<>>)
          /\ UNCHANGED <<sessionsDir, hist>>
     ELSE /\ sessionsDir' = WriteFile(WriteFile(Mkdir(sessionsDir, id),
                                                id, "session.json", name),
                                      id, "main.js", DefaultContent)
          /\ resp' = Resp("postSession", id, "", 200, name, <<>>)
          /\ hist' = HistNamed(HistCreate(id, CodeFiles(id) = {}), id, name)
  /\ emitted' = Silent
  /\ UNCHANGED <<variant, sessions, files, mem_files, session_users, rooms, sock,
                 pending, now>>

\* app.get('/api/sessions/:sessionId')
GetSessionFs(id) ==
  /\ variant = "fs"
  /\ LET info == {f \in DirFiles(id) : f.file_path = "session.json"}
     IN resp' = IF ~DirExists(id)
                THEN Resp("getSession", id, "", 404, "Session not found", <<>>)
                ELSE IF info = {}
                THEN Resp("getSession", id, "", 500, "", <<>>)
                ELSE Resp("getSession", id, "", 200, (CHOOSE f \in info : TRUE).content, <<>>)
  /\ emitted' = Silent
  /\ UNCHANGED <<variant, sessionsDir, sessions, files, mem_files, session_users,
                 rooms, sock, pending, now, hist>>

\* app.get('/api/sessions/:sessionId/files')
ListFilesFs(s) ==
  /\ variant = "fs"
  /\ IF ~DirExists(s)
     THEN resp' = Resp("listFiles", s, "", 404, "Session not found", <<>>)
     ELSE \E codeFiles \in Orderings(CodeFiles(s)) :
             resp' = Resp("listFiles", s, "", 200, "", codeFiles)
  /\ emitted' = Silent
  /\ UNCHANGED <<variant, sessionsDir, sessions, files, mem_files, session_users,
                 rooms, sock, pending, now, hist>>

\* app.get('/api/sessions/:sessionId/files/:filePath')
GetFileFs(s, p) ==
  /\ variant = "fs"
  /\ LET found == {f \in DirFiles(s) : f.file_path = p}
     IN resp' = IF found = {}
                THEN Resp("getFile", s, p, 404, "File not found", <<>>)
                ELSE Resp("getFile", s, p, 200, (CHOOSE f \in found : TRUE).content, <<>>)
  /\ emitted' = Silent
  /\ UNCHANGED <<variant, sessionsDir, sessions, files, mem_files, session_users,
                 rooms, sock, pending, now, hist>>

\* app.post('/api/sessions/:sessionId/files')
PostFileFs(s, p, v) ==
  /\ variant = "fs"
  /\ IF p = Missing \/ v = Missing
     THEN /\ resp' = Resp("postFile", s, p, 400, "filePath and content are required", <<>>)
          /\ UNCHANGED <<sessionsDir, hist>>
     ELSE /\ sessionsDir' = WriteFile(Mkdir(sessionsDir, s), s, p, v)
          /\ resp' = Resp("postFile", s, p, 200, "File saved successfully", <<>>)
          /\ hist' = HistPut(s, p, v)
  /\ emitted' = Silent
  /\ UNCHANGED <<variant, sessions, files, mem_files, session_users, rooms, sock,
                 pending, now>>

(* --------------------------- specification ----------------------------- *)

\* a statement queued on the database executes
RunStatement(st) ==
  \/ RunPutGetFile(st)
  \/ RunPutUpdate(st)
  \/ RunPutInsert(st)
  \/ RunTouch(st)
  \/ RunInsertUser(st)
  \/ RunSelectUsers(st)
  \/ RunReplaceFile(st)
  \/ RunSelectCursor(st)
  \/ RunSelectLeave(st)
  \/ RunDeleteUser(st)
  \/ RunReplaceFileMem(st)

\* request bodies may lack a field
BodyNames == SessionNames
BodyPaths == Paths \cup {Missing}
BodyContents == Contents \cup {Missing}

Next ==
  \/ \E id \in Ids, name \in BodyNames : PostSession(id, name) \/ PostSessionMem(id, name)
  \/ \E id \in Ids : GetSession(id) \/ GetSessionMem(id)
  \/ \E s \in Ids, p \in Paths, v \in Contents : PostFile(s, p, v)
  \/ \E s \in Ids, p \in BodyPaths, v \in BodyContents : PostFileMem(s, p, v)
  \/ \E s \in Ids, p \in Paths : GetFile(s, p) \/ GetFileMem(s, p)
  \/ \E s \in Ids : ListFiles(s) \/ ListFilesMem(s)
  \/ \E s \in Ids : DeleteSession(s)
  \/ \E c \in Conns : Connect(c)
  \/ \E c \in Conns, s \in Ids, n \in UserNames : JoinSession(c, s, n) \/ JoinSessionMem(c, s, n)
  \/ \E c \in Conns, s \in Ids, p \in Paths, v \in Contents :
        CodeChange(c, s, p, v) \/ CodeChangeMem(c, s, p, v)
  \/ \E c \in Conns, s \in Ids, pos \in Positions : CursorChange(c, s, pos)
  \/ \E c \in Conns : Disconnect(c) \/ DisconnectMem(c)
  \/ \E st \in pending : RunStatement(st)
  \/ Tick
  \/ Restart
  \/ \E st \in pending : FailReplaceFile(st)
  \/ \E c \in Conns : JoinSessionNoData(c)
  \/ \E c \in Conns : CodeChangeNoData(c)
  \/ \E c \in Conns : CursorChangeNoData(c)
  \/ \E id \in Ids, name \in BodyNames : PostSessionFs(id, name)
  \/ \E id \in Ids : GetSessionFs(id)
  \/ \E s \in Ids, p \in BodyPaths, v \in BodyContents : PostFileFs(s, p, v)
  \/ \E s \in Ids, p \in Paths : GetFileFs(s, p)
  \/ \E s \in Ids : ListFilesFs(s)

Spec == Init /\ [][Next]_vars

\* the store: the REST routes and the edits that reach the files table of
\* one session id, while no connection joins a room
StoreIds == {"s1"}
StoreConns == {"A"}

NextStore ==
  \/ \E id \in StoreIds, name \in BodyNames : PostSession(id, name)
  \/ \E id \in StoreIds : GetSession(id)
  \/ \E s \in StoreIds, p \in Paths, v \in Contents : PostFile(s, p, v)
  \/ \E s \in StoreIds, p \in Paths : GetFile(s, p)
  \/ \E s \in StoreIds : ListFiles(s)
  \/ \E s \in StoreIds : DeleteSession(s)
  \/ \E c \in StoreConns : Connect(c)
  \/ \E c \in StoreConns, s \in StoreIds, p \in Paths, v \in Contents : CodeChange(c, s, p, v)
  \/ \E st \in pending : RunPutGetFile(st)
  \/ \E st \in pending : RunPutUpdate(st)
  \/ \E st \in pending : RunPutInsert(st)
  \/ \E st \in pending : RunTouch(st)
  \/ \E st \in pending : RunReplaceFile(st)
  \/ \E id \in StoreIds, name \in BodyNames : PostSessionMem(id, name)
  \/ \E id \in StoreIds : GetSessionMem(id)
  \/ \E s \in StoreIds, p \in BodyPaths, v \in BodyContents : PostFileMem(s, p, v)
  \/ \E s \in StoreIds, p \in Paths : GetFileMem(s, p)
  \/ \E s \in StoreIds : ListFilesMem(s)
  \/ \E c \in StoreConns, s \in StoreIds, p \in Paths, v \in Contents : CodeChangeMem(c, s, p, v)
  \/ \E st \in pending : RunReplaceFileMem(st)
  \/ \E id \in StoreIds, name \in BodyNames : PostSessionFs(id, name)
  \/ \E id \in StoreIds : GetSessionFs(id)
  \/ \E s \in StoreIds, p \in BodyPaths, v \in BodyContents : PostFileFs(s, p, v)
  \/ \E s \in StoreIds, p \in Paths : GetFileFs(s, p)
  \/ \E s \in StoreIds : ListFilesFs(s)

SpecStore == Init /\ [][NextStore]_vars

\* the relay: the socket.io handlers but cursor-change (see SpecCursor),
\* with edits of one path, each client
\* using one user name, while no REST request arrives
RelayPaths == {"a"}
\* the session whose files are edited (joins use every id)
RelayEditIds == {"s1"}
ClientName(c) == IF c = "A" THEN "ann" ELSE Missing

NextRelay ==
  \/ \E c \in Conns : Connect(c)
  \/ \E c \in Conns, s \in Ids : JoinSession(c, s, ClientName(c))
  \/ \E c \in Conns, s \in RelayEditIds, p \in RelayPaths, v \in Contents : CodeChange(c, s, p, v)
  \/ \E c \in Conns : Disconnect(c)
  \/ \E st \in pending : RunTouch(st)
  \/ \E st \in pending : RunInsertUser(st)
  \/ \E st \in pending : RunSelectUsers(st)
  \/ \E st \in pending : RunReplaceFile(st)
  \/ \E st \in pending : RunSelectLeave(st)
  \/ \E st \in pending : RunDeleteUser(st)
  \/ \E c \in Conns, s \in Ids : JoinSessionMem(c, s, ClientName(c))
  \/ \E c \in Conns, s \in RelayEditIds, p \in RelayPaths, v \in Contents : CodeChangeMem(c, s, p, v)
  \/ \E c \in Conns : DisconnectMem(c)
  \/ \E st \in pending : RunReplaceFileMem(st)

SpecRelay == Init /\ [][NextRelay]_vars

\* edits whose write may fail: joins and code-change of the db variant
NextEdit ==
  \/ \E c \in Conns : Connect(c)
  \/ \E c \in Conns, s \in Ids : JoinSession(c, s, ClientName(c))
  \/ \E c \in Conns, s \in RelayEditIds, p \in RelayPaths, v \in Contents : CodeChange(c, s, p, v)
  \/ \E st \in pending : RunInsertUser(st)
  \/ \E st \in pending : RunSelectUsers(st)
  \/ \E st \in pending : RunReplaceFile(st)
  \/ \E st \in pending : FailReplaceFile(st)
  \/ \E st \in pending : RunTouch(st)

SpecEdit == Init /\ [][NextEdit]_vars

\* events with and without a payload: the join, edit and cursor handlers of
\* the db variant
NextPayload ==
  \/ \E c \in Conns : Connect(c)
  \/ \E c \in Conns, s \in Ids : JoinSession(c, s, ClientName(c))
  \/ \E c \in Conns, s \in RelayEditIds, p \in RelayPaths, v \in Contents : CodeChange(c, s, p, v)
  \/ \E c \in Conns, s \in Ids, pos \in Positions : CursorChange(c, s, pos)
  \/ \E c \in Conns : JoinSessionNoData(c)
  \/ \E c \in Conns : CodeChangeNoData(c)
  \/ \E c \in Conns : CursorChangeNoData(c)
  \/ \E st \in pending : RunInsertUser(st)
  \/ \E st \in pending : RunSelectUsers(st)
  \/ \E st \in pending : RunReplaceFile(st)
  \/ \E st \in pending : FailReplaceFile(st)
  \/ \E st \in pending : RunSelectCursor(st)
  \/ \E st \in pending : RunTouch(st)

SpecPayload == Init /\ [][NextPayload]_vars

\* cursors: the socket.io handlers without edits, each client using one name
NextCursor ==
  \/ \E c \in Conns : Connect(c)
  \/ \E c \in Conns, s \in Ids : JoinSession(c, s, ClientName(c))
  \/ \E c \in Conns, s \in Ids, pos \in Positions : CursorChange(c, s, pos)
  \/ \E c \in Conns : Disconnect(c)
  \/ \E st \in pending : RunInsertUser(st)
  \/ \E st \in pending : RunSelectUsers(st)
  \/ \E st \in pending : RunSelectCursor(st)
  \/ \E st \in pending : RunSelectLeave(st)
  \/ \E st \in pending : RunDeleteUser(st)

SpecCursor == Init /\ [][NextCursor]_vars

\* presence: joins and disconnects, with sessions created and deleted and
\* the process restarted
NextPresence ==
  \/ \E c \in Conns : Connect(c)
  \/ \E id \in Ids : PostSession(id, "Demo")
  \/ \E s \in Ids : DeleteSession(s)
  \/ \E c \in Conns, s \in Ids : JoinSession(c, s, ClientName(c))
  \/ \E c \in Conns : Disconnect(c)
  \/ \E st \in pending : RunInsertUser(st)
  \/ \E st \in pending : RunSelectUsers(st)
  \/ \E st \in pending : RunSelectLeave(st)
  \/ \E st \in pending : RunDeleteUser(st)
  \/ Restart

SpecPresence == Init /\ [][NextPresence]_vars

\* activity: the puts, reads and edits of one file of one session of the db
\* variant, while the clock advances
NextActivity ==
  \/ \E name \in BodyNames : PostSession("s1", name)
  \/ \E v \in Contents : PostFile("s1", "a", v)
  \/ GetFile("s1", "a")
  \/ ListFiles("s1")
  \/ DeleteSession("s1")
  \/ Connect("A")
  \/ \E v \in Contents : CodeChange("A", "s1", "a", v)
  \/ \E st \in pending : RunPutGetFile(st)
  \/ \E st \in pending : RunPutUpdate(st)
  \/ \E st \in pending : RunPutInsert(st)
  \/ \E st \in pending : RunReplaceFile(st)
  \/ \E st \in pending : RunTouch(st)
  \/ Tick

SpecActivity == Init /\ [][NextActivity]_vars

\* the session record: the routes of the fs variant, with puts whose
\* filePath is the name of the file that holds the record

NextRecord ==
  \/ \E id \in Ids, name \in BodyNames : PostSessionFs(id, name)
  \/ \E id \in Ids : GetSessionFs(id)
  \/ \E s \in StoreIds, p \in RecordPaths, v \in Contents : PostFileFs(s, p, v)
  \/ \E s \in StoreIds, p \in RecordPaths : GetFileFs(s, p)
  \/ \E s \in StoreIds : ListFilesFs(s)

SpecRecord == Init /\ [][NextRecord]_vars

(* ------------------------------- claims -------------------------------- *)

\* C1: whenever a connection c sends code-change(s, p, v), every other
\* connection that is in room s at that moment is sent exactly the
\* code-update {filePath: p, content: v, sender: c}, c itself is sent
\* nothing, and no step ever sends a connection a code-update whose sender
\* is that connection.
C1_EditReachesOthersNotSender ==
  [][/\ \A c \in Conns, s \in Ids, p \in Paths, v \in Contents :
          (CodeChange(c, s, p, v) \/ CodeChangeMem(c, s, p, v)) =>
             /\ \A b \in Conns \ {c} :
                   s \in rooms[b] =>
                      emitted'[b] = <<[type |-> "code-update", filePath |-> p,
                                       content |-> v, sender |-> c]>>
             /\ emitted'[c] = <<>>
     /\ \A a \in Conns : \A i \in DOMAIN emitted'[a] :
          emitted'[a][i].type = "code-update" => emitted'[a][i].sender # a]_vars

\* C1 witness: B, joined to s1 together with A, has just been sent A's edit
\* and A has been sent nothing.
C1_Witness ==
  /\ variant = "db"
  /\ "s1" \in rooms["A"] /\ "s1" \in rooms["B"]
  /\ emitted["B"] = <<[type |-> "code-update", filePath |-> "a",
                       content |-> "c2", sender |-> "A"]>>
  /\ emitted["A"] = <<>>

\* C8: the current-users reply sent to a connection never contains that
\* connection's own id.
C8_SnapshotExcludesJoiner ==
  \A c \in Conns : \A i \in DOMAIN emitted[c] :
     emitted[c][i].type = "current-users" =>
        \A j \in DOMAIN emitted[c][i].users : emitted[c][i].users[j].user_id # c

\* C9: when a connection c joins s with a user name n, every other
\* connection already in room s is sent exactly one user-joined carrying c
\* and n, and c and the connections outside the room are sent nothing.
C9_JoinNotifiesOthersOnce ==
  [][\A c \in Conns, s \in Ids, n \in UserNames \ {Missing} :
        (JoinSession(c, s, n) \/ JoinSessionMem(c, s, n)) =>
           /\ \A b \in Conns \ {c} :
                 emitted'[b] = IF s \in rooms[b]
                               THEN <<[type |-> "user-joined", userId |-> c, userName |-> n]>>
                               ELSE <<>>
           /\ emitted'[c] = <<>>]_vars

\* C9 witness: A has just joined s1, where B already was, and B has been
\* sent A's user-joined.
C9_Witness ==
  /\ variant = "db"
  /\ "s1" \in rooms["A"] /\ "s1" \in rooms["B"]
  /\ emitted["B"] = <<[type |-> "user-joined", userId |-> "A", userName |-> "ann"]>>
  /\ emitted["A"] = <<>>

\* the disconnect handler of c has run and both its statements have executed
DisconnectDone(c) ==
  /\ sock[c] = "closed"
  /\ \A st \in pending : st.u = c => st.k \notin {"sel_leave", "del_user"}

\* C10: once the disconnect of a connection c that had joined s has been
\* handled, every connection that was in room s at the disconnect and is
\* still connected has been sent user-left with c's id and name.
C10_UserLeftDelivered ==
  \A c \in Conns : DisconnectDone(c) => \A o \in hist.owed : o.userId # c

\* the key the last response is about
RespKey == <<resp.sessionId, resp.filePath>>

\* the sessions the registry holds: rows of the sessions table, or
\* directories with a session.json
Registered ==
  SessionIds \cup {f.session_id : f \in {g \in sessionsDir.files : g.file_path = "session.json"}}

\* C2: a get of (s, p) on an existing session, after a put of c1 and then a
\* put of c2 to (s, p) have completed and nothing else has written (s, p),
\* returns c2.
C2_LastWriteWins ==
  (/\ resp.op = "getFile"
   /\ resp.sessionId \in Registered
   /\ Len(hist.puts[RespKey]) = 2)
  => (resp.status = 200 /\ resp.content = hist.puts[RespKey][2])

\* C3: a get of a path that was written to s before s was deleted, and not
\* written since, answers 404.
C3_DeletedFilesGone ==
  (resp.op = "getFile" /\ RespKey \in hist.gone) => resp.status = 404

\* C4: every row of the files table has the id of a session that is in the
\* sessions table.
C4_FilesHaveSession ==
  /\ \A r \in files : r.session_id \in Registered
  /\ \A i \in DOMAIN mem_files : mem_files[i].session_id \in Registered
  /\ \A f \in sessionsDir.files : f.session_id \in Registered

\* C5: a put that is answered while its session is absent is refused (404
\* Session not found, or 400 for a body without filePath or content) and
\* leaves the files table unchanged.
C5_PutNeedsSession ==
  [][(resp'.op = "postFile" /\ resp'.sessionId \notin Registered) =>
        /\ resp'.status \in {400, 404}
        /\ files' = files
        /\ mem_files' = mem_files
        /\ sessionsDir' = sessionsDir]_vars

\* C6: list answers 404 when the session does not exist; when it exists it
\* answers 200, with an empty sequence exactly when the session has no file.
C6_ListDistinguishes ==
  resp.op = "listFiles" =>
     IF resp.sessionId \notin Registered
     THEN resp.status = 404
     ELSE /\ resp.status = 200
          /\ resp.files = <<>> <=>
               /\ FilesOf(resp.sessionId) = {}
               /\ FilesOfMem(resp.sessionId) = <<>>
               /\ CodeFiles(resp.sessionId) = {}

\* C7: for a session created on an empty store, list returns each path
\* written since exactly once: as many entries as distinct paths written.
C7_ListOnePerPath ==
  (resp.op = "listFiles" /\ resp.status = 200 /\ hist.fresh[resp.sessionId]) =>
     /\ Len(resp.files) = Cardinality(hist.written[resp.sessionId])
     /\ {resp.files[i] : i \in DOMAIN resp.files} = hist.written[resp.sessionId]

\* connection c has sent no join-session
NeverJoined(c) == \A j \in hist.joined : j[1] # c

\* C11: the disconnect of a connection that never joined (the handler and
\* the two statements it queues) emits no event and leaves presence,
\* sessions and files unchanged; a disconnected connection stays
\* disconnected and nothing more is queued for it, so there is no second
\* disconnect to act.
C11_IdleDisconnectIsNoOp ==
  [][\A c \in Conns :
       /\ (/\ NeverJoined(c)
           /\ \/ Disconnect(c)
              \/ DisconnectMem(c)
              \/ \E st \in pending :
                    st.u = c /\ (RunSelectLeave(st) \/ RunDeleteUser(st)))
          => /\ emitted' = Silent
             /\ session_users' = session_users
             /\ sessions' = sessions
             /\ files' = files
             /\ mem_files' = mem_files
       /\ sock[c] = "closed"
          => /\ sock'[c] = "closed"
             /\ \A st \in pending' \ pending : st.u # c]_vars

\* B, which never joined, has disconnected and its statements have run,
\* while A's presence row is still there
C11_Witness ==
  /\ variant = "db"
  /\ sock["B"] = "closed"
  /\ NeverJoined("B")
  /\ DisconnectDone("B")
  /\ Len(session_users) = 1
  /\ session_users[1].user_id = "A"

\* C12: the session_users table holds at most one row per connection id,
\* also after a connection has sent join-session twice.
C12_OnePresencePerConnection ==
  \A i, j \in DOMAIN session_users :
     session_users[i].user_id = session_users[j].user_id => i = j

\* C13: a get of a session answers 200 with the name given to the create
\* that made it, and 404 for an id that was never created or has been
\* deleted.
C13_CreateThenGet ==
  resp.op = "getSession" =>
     IF hist.named[resp.sessionId] = ""
     THEN resp.status = 404
     ELSE resp.status = 200 /\ resp.content = hist.named[resp.sessionId]

\* C14: a create that is given a name answers 200 with an id that no live
\* session had (a generated id that collides is replaced, not reported),
\* and leaves every existing session record and file as it was.
C14_CreateAvoidsCollision ==
  [][(resp'.op = "postSession" /\ resp'.status # 400) =>
        /\ resp'.status = 200
        /\ resp'.sessionId \notin Registered
        /\ \A r \in sessions : r \in sessions'
        /\ files' = files
        /\ mem_files' = mem_files
        /\ \A f \in sessionsDir.files : f \in sessionsDir'.files]_vars

\* C15: in the db variant every put that is answered while its session
\* exists has succeeded, and afterwards the files table holds exactly one
\* row for its key, with the content of the write that completed last.
C15_ConcurrentPutsBothSucceed ==
  (variant = "db" /\ resp.op = "postFile" /\ resp.sessionId \in SessionIds) =>
     /\ resp.status = 200
     /\ Cardinality(FileRows(resp.sessionId, resp.filePath)) = 1
     /\ \A r \in FileRows(resp.sessionId, resp.filePath) :
           r.content = hist.lastWrite[RespKey]

\* C16: every connection is in the room of at most one session.
C16_AtMostOneSession ==
  \A c \in Conns : Cardinality(rooms[c]) <= 1

\* C17: whenever no statement is pending, every row of session_users
\* belongs to a connection that is open and is in the room of that session;
\* so none is left for a disconnected connection or after a restart.
C17_PresenceIsConnectionLifetime ==
  pending = {} =>
     \A i \in DOMAIN session_users :
        /\ sock[session_users[i].user_id] = "open"
        /\ session_users[i].session_id \in rooms[session_users[i].user_id]

\* C18: for a session that has been deleted, no connection is in its room
\* and, once no statement is pending, session_users holds no row of it:
\* this covers the members at the time of the delete and the joins that
\* run with or after it.
C18_DeleteClearsMembers ==
  \A s \in hist.deleted :
     /\ \A c \in Conns : s \notin rooms[c]
     /\ pending = {} => UsersOf(s) = <<>>

\* C19: when the lookup of a cursor-change completes, and its sender is open,
\* in the room of the session and has joined it with name n, every other
\* member of the session gets exactly cursor-update(sender, n, position);
\* the cursor-change handler and its lookup change no session, file or
\* presence row.
C19_CursorReachesOthers ==
  [][/\ \A st \in pending :
          (/\ st.k = "sel_cursor"
           /\ RunSelectCursor(st)
           /\ sock[st.u] = "open"
           /\ st.s \in rooms[st.u])
          => \A j \in hist.joined :
                (j[1] = st.u /\ j[2] = st.s) =>
                   \A b \in Conns \ {st.u} :
                      st.s \in rooms[b] =>
                         emitted'[b] = <<CursorUpdate(st.u, j[3], st.v)>>
     /\ (\/ \E c \in Conns, s \in Ids, pos \in Positions : CursorChange(c, s, pos)
         \/ \E st \in pending : RunSelectCursor(st))
        => /\ sessions' = sessions
           /\ files' = files
           /\ session_users' = session_users]_vars

\* C20: a code-change delivers its code-update to every other member of
\* the session, and nothing to the sender, in the step that queues the
\* write, whatever becomes of the write; when the write then fails, no
\* event is emitted to any connection and the files table is unchanged.
C20_FailedWriteStillRelayed ==
  [][/\ \A c \in Conns, s \in Ids, p \in Paths, v \in Contents :
          CodeChange(c, s, p, v) =>
             /\ Stmt("replace_file", s, p, v, "") \in pending'
             /\ emitted'[c] = <<>>
             /\ \A b \in Conns \ {c} :
                   s \in rooms[b] => emitted'[b] = <<CodeUpdate(c, p, v)>>
     /\ \A st \in pending :
          FailReplaceFile(st) => (emitted' = Silent /\ files' = files)]_vars

\* A and B are in room s1, the write of an edit of (s1, a) has failed and
\* the files table holds no row
C20_Witness ==
  /\ variant = "db"
  /\ "s1" \in rooms["A"] /\ "s1" \in rooms["B"]
  /\ <<"s1", "a", "c1">> \in hist.failed
  /\ files = {}

\* C21: no real-time event terminates a connection: an open connection is
\* closed only by its own disconnect.
C21_EventsNeverTerminate ==
  [][\A b \in Conns :
       (sock[b] = "open" /\ sock'[b] # "open") =>
          (Disconnect(b) \/ DisconnectMem(b))]_vars

\* C22: under the non-decreasing clock, last_activity of a session row and
\* last_modified of a file row never decrease, and once the statements queued
\* for session s have run, last_activity of s is not earlier than the time of
\* the latest successful put, get, list or persisted edit of s.
TouchQueued(s) == updateSessionActivity(s) \in pending

ActivityNotBehind ==
  \A r \in sessions : ~TouchQueued(r.id) => r.last_activity >= hist.active[r.id]

TimestampsNeverDecrease ==
  /\ now' >= now
  /\ \A r \in sessions, q \in sessions' :
        r.id = q.id => q.last_activity >= r.last_activity
  /\ \A r \in files, q \in files' :
        (r.session_id = q.session_id /\ r.file_path = q.file_path)
           => q.last_modified >= r.last_modified

C22_ActivityFollowsOperations ==
  []ActivityNotBehind /\ [][TimestampsNeverDecrease]_vars

C22_Witness ==
  \E r \in sessions :
     /\ hist.active[r.id] = MaxClock
     /\ r.created_at < MaxClock
     /\ r.last_activity = MaxClock
     /\ ~TouchQueued(r.id)
     /\ \E f \in files : f.session_id = r.id /\ f.last_modified = MaxClock

\* C23: an edit or a cursor move naming session s, sent by a connection that
\* never joined s, delivers nothing to any connection and queues no write of
\* a file of s.
NotJoined(c, s) == \A j \in hist.joined : ~(j[1] = c /\ j[2] = s)

C23_OnlyMembersAffect ==
  [][/\ \A c \in Conns, s \in Ids, p \in Paths, v \in Contents :
          ((CodeChange(c, s, p, v) \/ CodeChangeMem(c, s, p, v)) /\ NotJoined(c, s)) =>
             /\ emitted' = Silent
             /\ \A st \in pending' \ pending : st.s # s
     /\ \A st \in pending :
          (RunSelectCursor(st) /\ NotJoined(st.u, st.s)) => emitted' = Silent]_vars

\* C24: once no write of (s, p) is queued, the stored content of (s, p) is
\* the content of the code-update the members of s received last for (s, p).
WritesDone(s, p) ==
  \A st \in pending : ~(st.k \in {"replace_file", "replace_file_mem"} /\ st.s = s /\ st.p = p)

C24_StoredIsLastBroadcast ==
  \A s \in Ids, p \in Paths :
     (WritesDone(s, p) /\ hist.lastSent[<<s, p>>] # "" /\ variant = "db") =>
        \E r \in FileRows(s, p) : r.content = hist.lastSent[<<s, p>>]

\* C25: a file put on an existing session, whatever its path, leaves the
\* record of every session (the content get(s) answers with) and the set of
\* session ids unchanged.
SessionRecord(d, s) == {f \in d.files : f.session_id = s /\ f.file_path = "session.json"}

C25_PutLeavesSessionRecord ==
  [][\A s \in StoreIds, p \in RecordPaths, v \in Contents :
        (PostFileFs(s, p, v) /\ DirExists(s)) =>
           /\ \A id \in Ids : SessionRecord(sessionsDir', id) = SessionRecord(sessionsDir, id)
           /\ sessionsDir'.dirs = sessionsDir.dirs]_vars

====
